---- MODULE Spec2Model ----
(***************************************************************************)
(* Model of stock_predictor.py: the RSI indicator (calculate_rsi), the     *)
(* per-symbol evaluation (evaluate_stock) and the driver loop (main).      *)
(*                                                                         *)
(* Numbers.  The program computes in double precision.  The model uses     *)
(* exact rationals [kind |-> "num", num, den] with den > 0, plus the IEEE  *)
(* specials the code can produce: "nan" (0/0, the diff of the first row)   *)
(* and "inf" (x/0 with x # 0).  Python's None is the kind "none".          *)
(* Positions: pandas rows are 0-based, sequences here are 1-based, so      *)
(* pandas index i is position i + 1.                                       *)
(***************************************************************************)
EXTENDS Integers, Sequences, FiniteSets, TLC

VARIABLES
    pc,               \* control position of the running specification
    \* ---- calculate_rsi called on its own
    data,             \* the frame passed to calculate_rsi (sequence of bars)
    window,           \* its window argument
    rsi,              \* the returned RSI series
    \* ---- evaluate_stock called on its own
    symbol,           \* its symbol argument
    result,           \* the returned 6-tuple
    \* ---- main
    rsi_threshold,    \* value of the slider
    symbols_file,     \* what open("symbols.json") / json.load find
    symbols,          \* the loaded symbol list
    idx,              \* position of the for loop in symbols
    stock_data,       \* outcome of the last yf.download call
    requests,         \* the yf.download calls made so far (symbols, in order)
    responses,        \* the outcomes of those calls, in order
    panels,           \* the st.expander panels rendered so far
    strong_buy_data,  \* the accumulated strong-buy list
    st_error,         \* argument of st.error, or "None"
    st_success,       \* the count shown by st.success, or -1 when not shown
    download          \* rows handed to st.download_button, or <<>> when none

vars == <<pc, data, window, rsi, symbol, result, rsi_threshold, symbols_file,
          symbols, idx, stock_data, requests, responses, panels,
          strong_buy_data, st_error, st_success, download>>

(***************************************************************************)
(* Floating-point values                                                   *)
(***************************************************************************)
RECURSIVE GCD(_, _)
GCD(a, b) == IF b = 0 THEN a ELSE GCD(b, a % b)
Abs(n) == IF n < 0 THEN -n ELSE n

\* the rational n / d (d # 0) in lowest terms with a positive denominator
Num(n, d) ==
    LET g == GCD(Abs(n), Abs(d))
        s == IF d < 0 THEN -1 ELSE 1
    IN  [kind |-> "num", num |-> s * (n \div g), den |-> s * (d \div g)]
NaN  == [kind |-> "nan",  num |-> 0, den |-> 1]
Inf  == [kind |-> "inf",  num |-> 0, den |-> 1]
None == [kind |-> "none", num |-> 0, den |-> 1]

IsNum(x) == x.kind = "num"

\* x > 0 ; a comparison with NaN is False
GtZero(x) == IsNum(x) /\ x.num > 0
\* x < 0
LtZero(x) == IsNum(x) /\ x.num < 0

\* x > n for an integer n
GtInt(x, n) ==
    CASE x.kind = "num" -> x.num > n * x.den
      [] x.kind = "inf" -> TRUE
      [] OTHER          -> FALSE

\* unary minus
Neg(x) == IF IsNum(x) THEN Num(-x.num, x.den) ELSE x

\* a / b with IEEE division by zero.  The loss of line 13 is the negation of
\* a mean, so a zero loss is -0.0 and gain / loss is -inf; the sign is dropped
\* here because 100 / (1 + rs) is a zero for either infinity.
FDiv(a, b) ==
    IF a.kind = "nan" \/ b.kind = "nan" THEN NaN
    ELSE IF b.num = 0 THEN (IF a.num = 0 THEN NaN ELSE Inf)
    ELSE Num(a.num * b.den, a.den * b.num)

\* 1 + x
OnePlus(x) == IF IsNum(x) THEN Num(x.den + x.num, x.den) ELSE x

\* 100 / x
HundredOver(x) ==
    CASE x.kind = "nan" -> NaN
      [] x.kind = "inf" -> Num(0, 1)
      [] OTHER          -> IF x.num = 0 THEN Inf ELSE Num(100 * x.den, x.num)

\* 100 - x
HundredMinus(x) ==
    CASE x.kind = "num" -> Num(100 * x.den - x.num, x.den)
      [] x.kind = "inf" -> Inf
      [] OTHER          -> NaN

\* n / d (d > 0) rounded to the nearest integer, ties to even
RoundHalfEven(n, d) ==
    LET q == n \div d
        r == n % d
    IN  IF 2 * r < d THEN q
        ELSE IF 2 * r > d THEN q + 1
        ELSE IF q % 2 = 0 THEN q ELSE q + 1

\* round(x, 2): a number of hundredths; round(nan, 2) is nan
Round2(x) ==
    IF IsNum(x) THEN Num(RoundHalfEven(100 * x.num, x.den), 100) ELSE x

(***************************************************************************)
(* calculate_rsi                                                           *)
(***************************************************************************)
\* a bar of the frame: Close in thousandths, Volume in shares
Bar(c, v) == [Close |-> c, Volume |-> v]
Close(frame) == [p \in 1..Len(frame) |-> Num(frame[p].Close, 1000)]
Volume(frame) == [p \in 1..Len(frame) |-> Num(frame[p].Volume, 1)]

\* Series.diff(): NaN in the first row
Diff(s) ==
    [p \in 1..Len(s) |->
        IF p = 1 THEN NaN
        ELSE Num(s[p].num * s[p-1].den - s[p-1].num * s[p].den,
                 s[p].den * s[p-1].den)]

\* delta.where(delta > 0, 0): rows where the condition is False become 0
WherePositive(delta) ==
    [p \in 1..Len(delta) |-> IF GtZero(delta[p]) THEN delta[p] ELSE Num(0, 1)]
\* delta.where(delta < 0, 0)
WhereNegative(delta) ==
    [p \in 1..Len(delta) |-> IF LtZero(delta[p]) THEN delta[p] ELSE Num(0, 1)]

RECURSIVE SumNum(_, _, _)
SumNum(s, lo, hi) ==
    IF lo > hi THEN Num(0, 1)
    ELSE LET t == SumNum(s, lo + 1, hi)
         IN  Num(s[lo].num * t.den + t.num * s[lo].den, s[lo].den * t.den)

\* Series.rolling(window=w).mean(): min_periods is w, so a row is NaN until
\* w rows (all of them numbers) end at it
RollingMean(s, w) ==
    [p \in 1..Len(s) |->
        IF p < w \/ \E k \in (p - w + 1)..p : ~IsNum(s[k]) THEN NaN
        ELSE LET t == SumNum(s, p - w + 1, p) IN Num(t.num, t.den * w)]

Gain(frame, w) == RollingMean(WherePositive(Diff(Close(frame))), w)

LossNotNegated(frame, w) == RollingMean(WhereNegative(Diff(Close(frame))), w)
Loss(frame, w) ==
    LET m == RollingMean(WhereNegative(Diff(Close(frame))), w)
    IN  [p \in 1..Len(m) |-> Neg(m[p])]

RsZeroLossIsZero(g, l) == IF IsNum(l) /\ l.num = 0 THEN Num(0, 1) ELSE FDiv(g, l)
Rs(g, l) == FDiv(g, l)

calculate_rsi(frame, w) ==
    LET gain == Gain(frame, w)
        loss == Loss(frame, w)
    IN  [p \in 1..Len(frame) |->
            HundredMinus(HundredOver(OnePlus(Rs(gain[p], loss[p]))))]

(***************************************************************************)
(* evaluate_stock                                                          *)
(***************************************************************************)
\* Python bool / None of the price_up and volume_up fields
PyBool(b) == IF b THEN "True" ELSE "False"

\* a > b on two numbers; False when either is NaN
Gt(a, b) == IsNum(a) /\ IsNum(b) /\ a.num * b.den > b.num * a.den

StrongBuy       == [kind |-> "Strong Buy", detail |-> ""]
NotStrongBuy    == [kind |-> "Not a strong buy", detail |-> ""]
SkippedNoData   == [kind |-> "Skipped - insufficient data", detail |-> ""]
SkippedError(e) == [kind |-> "Skipped - error fetching data", detail |-> e]

Result(name, price, r, pu, vu, verdict) ==
    [name |-> name, price |-> price, rsi |-> r, price_up |-> pu,
     volume_up |-> vu, verdict |-> verdict]

\* outcomes of yf.download: an exception, or a frame with its columns
Raise(e) == [kind |-> "raise", err |-> e, bars |-> <<>>, columns |-> {}]
Frame(bars, cols) == [kind |-> "frame", err |-> "", bars |-> bars, columns |-> cols]

\* the verdict rule of lines 38-41
VerdictGe(rsi_today, threshold, price_up, volume_up) ==
    IF (GtInt(rsi_today, threshold)
          \/ (IsNum(rsi_today) /\ rsi_today.num = threshold * rsi_today.den))
       /\ price_up /\ volume_up
    THEN StrongBuy ELSE NotStrongBuy
VerdictOr(rsi_today, threshold, price_up, volume_up) ==
    IF GtInt(rsi_today, threshold) \/ (price_up /\ volume_up)
    THEN StrongBuy ELSE NotStrongBuy
Verdict(rsi_today, threshold, price_up, volume_up) ==
    IF GtInt(rsi_today, threshold) /\ price_up /\ volume_up
    THEN StrongBuy ELSE NotStrongBuy

\* the except clause of lines 45-46
ExceptResultNoText(sym, e) ==
    Result(sym, None, None, "None", "None", SkippedNoData)
ExceptResult(sym, e) == Result(sym, None, None, "None", "None", SkippedError(e))

\* stock_data.empty or len(stock_data) < 15
InsufficientOffByOne(frame) ==
    frame.columns = {} \/ Len(frame.bars) = 0 \/ Len(frame.bars) < 14
Insufficient(frame) ==
    frame.columns = {} \/ Len(frame.bars) = 0 \/ Len(frame.bars) < 15

\* resp is what yf.download(symbol, ...) does for this call
evaluate_stock(sym, threshold, resp) ==
    IF resp.kind = "raise" THEN ExceptResult(sym, resp.err)
    ELSE IF Insufficient(resp)
    THEN Result(sym, None, None, "None", "None", SkippedNoData)
    ELSE IF "Close" \notin resp.columns THEN ExceptResult(sym, "'Close'")
    ELSE IF "Volume" \notin resp.columns THEN ExceptResult(sym, "'Volume'")
    ELSE
      LET n                == Len(resp.bars)
          rsi_today        == calculate_rsi(resp.bars, 14)[n]
          price_today      == Close(resp.bars)[n]
          price_yesterday  == Close(resp.bars)[n - 1]
          volume_today     == Volume(resp.bars)[n]
          volume_yesterday == Volume(resp.bars)[n - 1]
          price_up         == Gt(price_today, price_yesterday)
          volume_up        == Gt(volume_today, volume_yesterday)
      IN  Result(sym, Round2(price_today), Round2(rsi_today),
                 PyBool(price_up), PyBool(volume_up),
                 Verdict(rsi_today, threshold, price_up, volume_up))

(***************************************************************************)
(* main                                                                    *)
(***************************************************************************)
\* verdict.startswith("Skipped")
StartsWithSkipped(verdict) ==
    verdict.kind \in {"Skipped - insufficient data", "Skipped - error fetching data"}

\* the body of one st.expander: a warning, or the four metrics and the verdict
Panel(sym, r) ==
    IF StartsWithSkipped(r.verdict)
    THEN [title |-> sym, body |-> "warning", price |-> None, rsi |-> None,
          price_up |-> "None", volume_up |-> "None", verdict |-> r.verdict]
    ELSE [title |-> sym, body |-> "metrics", price |-> r.price, rsi |-> r.rsi,
          price_up |-> r.price_up, volume_up |-> r.volume_up,
          verdict |-> r.verdict]

\* lines 81-86: append on the verdict Strong Buy, inside the non-skipped branch
AppendAlways(sbd, sym, r) ==
    Append(sbd, [Symbol |-> sym, Price |-> r.price, RSI |-> r.rsi])
AppendStrongBuy(sbd, sym, r) ==
    IF ~StartsWithSkipped(r.verdict) /\ r.verdict = StrongBuy
    THEN Append(sbd, [Symbol |-> sym, Price |-> r.price, RSI |-> r.rsi])
    ELSE sbd

\* pd.DataFrame(strong_buy_data).to_csv(index=False): a header and one row per
\* dict, columns in key order
NoDownload == [file_name |-> "None", header |-> <<>>, rows |-> <<>>]
ToCsv(sbd) ==
    [file_name |-> "strong_buy_{timestamp}.csv",
     header    |-> <<"Symbol", "Price", "RSI">>,
     rows      |-> [k \in 1..Len(sbd) |-> <<sbd[k].Symbol, sbd[k].Price, sbd[k].RSI>>]]

NoResult == Result("", None, None, "None", "None", [kind |-> "None", detail |-> ""])

(***************************************************************************)
(* Bounds and input sets                                                   *)
(***************************************************************************)
MaxLen     == 4    \* longest frame handed to calculate_rsi on its own
MaxPrice   == 3    \* closes of those frames are 1..MaxPrice
MaxWindow  == 3    \* windows 1..MaxWindow
TailLen    == 2    \* free bars at the end of a frame handed to evaluate_stock
MaxSymbols == 2    \* longest symbol list

Symbols        == {"AAA", "BBB"}
Thresholds     == {30, 33, 50, 70}          \* slider values, within 30..70
MainThresholds == {33, 50}
ErrTexts       == {"timeout"}
AllColumns     == {"Close", "Volume"}
Volumes        == {1000, 1500}
EvalPrices     == {1, 68, 137}
MainPrices     == {1, 68}
EvalLens       == {0, 14, 15, 16}

RsiFrames ==
    UNION { [1..n -> {Bar(c, 1000) : c \in 1..MaxPrice}] : n \in 0..MaxLen }

\* a frame of n bars: a flat head at the close base, then the bars of tail
HeadThen(n, base, tail) ==
    [p \in 1..n |-> IF p <= n - Len(tail) THEN Bar(base, 1000)
                                          ELSE tail[p - (n - Len(tail))]]
\* frames of n bars with TailLen free bars at the end
Tails(k, prices) == [1..k -> {Bar(c, v) : c \in prices, v \in Volumes}]
Frames(n, prices) ==
    IF n <= TailLen THEN Tails(n, prices)
    ELSE { HeadThen(n, base, t) : base \in prices, t \in Tails(TailLen, prices) }

EvalResponses ==
    {Raise(e) : e \in ErrTexts}
    \cup {Frame(b, cols) : b \in UNION {Frames(n, EvalPrices) : n \in EvalLens},
                           cols \in {AllColumns, {"Close"}}}

MainResponses ==
    {Raise(e) : e \in ErrTexts}
    \cup {Frame(<<>>, AllColumns)}
    \cup {Frame(HeadThen(15, 137, <<Bar(1, 1000), Bar(c, v)>>), AllColumns) :
            c \in MainPrices, v \in Volumes}
    \cup {Frame(HeadThen(15, 137, <<Bar(1, 1000), Bar(68, 1500)>>), {"Close"})}

SymbolFiles ==
    {[kind |-> k, symbols |-> <<>>] : k \in {"missing", "invalid json", "no symbols key"}}
    \cup {[kind |-> "ok", symbols |-> l] :
            l \in UNION {[1..n -> Symbols] : n \in 0..MaxSymbols}}

(***************************************************************************)
(* Specifications                                                          *)
(***************************************************************************)
\* ---- calculate_rsi on its own
InitRsi ==
    /\ pc = "rsi_call"
    /\ data \in RsiFrames
    /\ window \in 1..MaxWindow
    /\ rsi = <<>>
    /\ symbol = "" /\ result = NoResult
    /\ rsi_threshold = 50 /\ symbols_file = [kind |-> "missing", symbols |-> <<>>]
    /\ symbols = <<>> /\ idx = 0 /\ stock_data = Frame(<<>>, AllColumns)
    /\ requests = <<>> /\ responses = <<>> /\ panels = <<>>
    /\ strong_buy_data = <<>> /\ st_error = "None" /\ st_success = -1
    /\ download = NoDownload

CallCalculateRsi ==
    /\ pc = "rsi_call"
    /\ rsi' = calculate_rsi(data, window)
    /\ pc' = "rsi_done"
    /\ UNCHANGED <<data, window, symbol, result, rsi_threshold, symbols_file,
                   symbols, idx, stock_data, requests, responses, panels,
                   strong_buy_data, st_error, st_success, download>>

NextRsi == CallCalculateRsi
SpecRsi == InitRsi /\ [][NextRsi]_vars

\* ---- evaluate_stock on its own
InitEval ==
    /\ pc = "eval_call"
    /\ symbol \in Symbols
    /\ rsi_threshold \in Thresholds
    /\ result = NoResult
    /\ data = <<>> /\ window = 14 /\ rsi = <<>>
    /\ symbols_file = [kind |-> "missing", symbols |-> <<>>]
    /\ symbols = <<>> /\ idx = 0 /\ stock_data = Frame(<<>>, AllColumns)
    /\ requests = <<>> /\ responses = <<>> /\ panels = <<>>
    /\ strong_buy_data = <<>> /\ st_error = "None" /\ st_success = -1
    /\ download = NoDownload

CallEvaluateStock ==
    /\ pc = "eval_call"
    /\ \E resp \in EvalResponses :
         /\ stock_data' = resp
         /\ result' = evaluate_stock(symbol, rsi_threshold, resp)
    /\ pc' = "eval_done"
    /\ UNCHANGED <<data, window, rsi, symbol, rsi_threshold, symbols_file,
                   symbols, idx, requests, responses, panels,
                   strong_buy_data, st_error, st_success, download>>

NextEval == CallEvaluateStock
SpecEval == InitEval /\ [][NextEval]_vars

\* ---- main
Init ==
    /\ pc = "load"
    /\ rsi_threshold \in MainThresholds
    /\ symbols_file \in SymbolFiles
    /\ symbols = <<>> /\ idx = 0 /\ stock_data = Frame(<<>>, AllColumns)
    /\ requests = <<>> /\ responses = <<>> /\ panels = <<>>
    /\ strong_buy_data = <<>> /\ st_error = "None" /\ st_success = -1
    /\ download = NoDownload
    /\ data = <<>> /\ window = 14 /\ rsi = <<>>
    /\ symbol = "" /\ result = NoResult

\* lines 56-66
LoadSymbolsNoReturn ==
    /\ pc = "load"
    /\ symbols' = symbols_file.symbols
    /\ idx' = 1
    /\ pc' = "loop"
    /\ st_error' = IF symbols_file.kind = "ok" THEN st_error ELSE symbols_file.kind
    /\ UNCHANGED <<data, window, rsi, symbol, result, rsi_threshold,
                   symbols_file, stock_data, requests, responses, panels,
                   strong_buy_data, st_success, download>>
LoadSymbols ==
    /\ pc = "load"
    /\ IF symbols_file.kind = "ok"
       THEN /\ symbols' = symbols_file.symbols
            /\ idx' = 1
            /\ pc' = "loop"
            /\ UNCHANGED st_error
       ELSE /\ st_error' = symbols_file.kind
            /\ pc' = "returned"
            /\ UNCHANGED <<symbols, idx>>
    /\ UNCHANGED <<data, window, rsi, symbol, result, rsi_threshold,
                   symbols_file, stock_data, requests, responses, panels,
                   strong_buy_data, st_success, download>>

\* lines 68-86: one iteration of the for loop
LoopBody ==
    /\ pc = "loop"
    /\ idx <= Len(symbols)
    /\ \E resp \in MainResponses :
         LET r == evaluate_stock(symbols[idx], rsi_threshold, resp)
         IN  /\ stock_data' = resp
             /\ symbol' = symbols[idx]
             /\ result' = r
             /\ requests' = Append(requests, symbols[idx])
             /\ responses' = Append(responses, resp)
             /\ panels' = Append(panels, Panel(symbols[idx], r))
             /\ strong_buy_data' = AppendStrongBuy(strong_buy_data, symbols[idx], r)
    /\ idx' = idx + 1
    /\ UNCHANGED <<pc, data, window, rsi, rsi_threshold, symbols_file, symbols,
                   st_error, st_success, download>>

\* lines 88-109
Summary ==
    /\ pc = "loop"
    /\ idx > Len(symbols)
    /\ st_success' = Len(strong_buy_data)
    /\ download' = IF strong_buy_data # <<>> THEN ToCsv(strong_buy_data)
                                             ELSE NoDownload
    /\ pc' = "done"
    /\ UNCHANGED <<data, window, rsi, symbol, result, rsi_threshold,
                   symbols_file, symbols, idx, stock_data, requests, responses,
                   panels, strong_buy_data, st_error>>

Next == LoadSymbols \/ LoopBody \/ Summary
Spec == Init /\ [][Next]_vars

(***************************************************************************)
(* Properties                                                              *)
(***************************************************************************)
\* evaluate_stock has returned after a download that gave a frame with both
\* columns and at least 15 bars
Evaluated ==
    /\ pc = "eval_done"
    /\ stock_data.kind = "frame"
    /\ stock_data.columns = AllColumns
    /\ Len(stock_data.bars) >= 15

LastRsi == calculate_rsi(stock_data.bars, 14)[Len(stock_data.bars)]
LastCloseUp ==
    stock_data.bars[Len(stock_data.bars)].Close
        > stock_data.bars[Len(stock_data.bars) - 1].Close
LastVolumeUp ==
    stock_data.bars[Len(stock_data.bars)].Volume
        > stock_data.bars[Len(stock_data.bars) - 1].Volume

\* C1: for a frame of at least 15 bars whose last RSI is defined, the verdict
\* is Strong Buy exactly when the last RSI is strictly above the threshold, the
\* last close is strictly above the previous close and the last volume is
\* strictly above the previous volume; otherwise it is Not a strong buy.
C1_VerdictRule ==
    (Evaluated /\ IsNum(LastRsi)) =>
        /\ result.verdict \in {StrongBuy, NotStrongBuy}
        /\ result.verdict = StrongBuy <=>
              /\ LastRsi.num > rsi_threshold * LastRsi.den
              /\ LastCloseUp
              /\ LastVolumeUp

\* the RSI equals the threshold while price and volume are both up
C1_Witness ==
    /\ Evaluated /\ IsNum(LastRsi)
    /\ LastRsi.num = rsi_threshold * LastRsi.den
    /\ LastCloseUp /\ LastVolumeUp
    /\ result.verdict = NotStrongBuy

\* C2: a frame of fewer than 15 bars (the empty frame included) gives the
\* insufficient-data verdict with price, RSI and both flags absent; a frame of
\* exactly 15 bars never gives that verdict.
C2_InsufficientData ==
    (pc = "eval_done" /\ stock_data.kind = "frame") =>
        /\ Len(stock_data.bars) < 15 =>
              result = Result(symbol, None, None, "None", "None", SkippedNoData)
        /\ Len(stock_data.bars) = 15 => result.verdict # SkippedNoData

C2_Witness ==
    /\ pc = "eval_done" /\ stock_data.kind = "frame"
    /\ Len(stock_data.bars) = 14
    /\ result.verdict = SkippedNoData

\* the download raised, or a later step of the evaluation did
Fails(resp) ==
    \/ resp.kind = "raise"
    \/ /\ resp.kind = "frame" /\ Len(resp.bars) >= 15
       /\ resp.columns # AllColumns
ErrorText(resp) ==
    IF resp.kind = "raise" THEN resp.err
    ELSE IF "Close" \notin resp.columns THEN "'Close'" ELSE "'Volume'"

\* C3: the loop renders exactly one panel per processed symbol, in list order;
\* the panel of a symbol whose evaluation raised is the fetch-error warning
\* with the error text, every other panel is what evaluating that symbol's own
\* download gives, and at the end every symbol of the list has its panel.
C3_OnePanelPerSymbol ==
    (pc \in {"loop", "done"}) =>
        /\ Len(panels) = idx - 1
        /\ Len(responses) = Len(panels)
        /\ pc = "done" => Len(panels) = Len(symbols)
        /\ \A k \in 1..Len(panels) :
              /\ panels[k].title = symbols[k]
              /\ Fails(responses[k]) =>
                    /\ panels[k].body = "warning"
                    /\ panels[k].verdict = SkippedError(ErrorText(responses[k]))
              /\ ~Fails(responses[k]) =>
                    /\ panels[k].verdict.kind \in
                         {"Strong Buy", "Not a strong buy",
                          "Skipped - insufficient data"}
                    /\ panels[k] =
                         Panel(symbols[k],
                               evaluate_stock(symbols[k], rsi_threshold, responses[k]))

\* a finished run in which one symbol failed and another was evaluated
C3_Witness ==
    /\ pc = "done" /\ Len(symbols) >= 2 /\ Len(panels) = Len(symbols)
    /\ \E j, k \in 1..Len(panels) :
          /\ Fails(responses[j])
          /\ panels[j].verdict.kind = "Skipped - error fetching data"
          /\ panels[k].body = "metrics"

\* C4: a frame of at least 15 bars whose last RSI is undefined gives the
\* insufficient-data verdict (and so no verdict that carries an RSI).
C4_UndefinedRsiSkipped ==
    (Evaluated /\ ~IsNum(LastRsi)) => result.verdict = SkippedNoData

\* C5: on a frame of at least window + 1 bars every defined RSI value lies in
\* the closed range 0..100.
C5_RsiRange ==
    (pc = "rsi_done" /\ Len(data) >= window + 1) =>
        \A p \in 1..Len(rsi) :
            rsi[p].kind # "nan" =>
                /\ IsNum(rsi[p])
                /\ rsi[p].num >= 0
                /\ rsi[p].num <= 100 * rsi[p].den

C5_Witness ==
    /\ pc = "rsi_done" /\ Len(data) >= window + 1
    /\ \E p \in 1..Len(rsi) :
          IsNum(rsi[p]) /\ rsi[p].num > 0 /\ rsi[p].num < 100 * rsi[p].den

StrictlyIncreasing(frame) ==
    \A p \in 2..Len(frame) : frame[p].Close > frame[p-1].Close

\* C6: on a strictly increasing close series, wherever the RSI is defined
\* the average loss is 0, the average gain is positive and the RSI is 100.
C6_IncreasingSaturates ==
    (pc = "rsi_done" /\ StrictlyIncreasing(data)) =>
        \A p \in 1..Len(rsi) :
            rsi[p].kind # "nan" =>
                /\ Loss(data, window)[p] = Num(0, 1)
                /\ GtZero(Gain(data, window)[p])
                /\ rsi[p] = Num(100, 1)

C6_Witness ==
    /\ pc = "rsi_done" /\ StrictlyIncreasing(data) /\ Len(data) >= 3
    /\ rsi[Len(rsi)] = Num(100, 1)

\* C7: the RSI at every pandas index i < window (position i + 1) is
\* undefined, the first row's missing delta never standing in for a zero.
C7_UndefinedBelowWindow ==
    pc = "rsi_done" =>
        \A p \in 1..Len(rsi) : (p - 1 < window) => rsi[p].kind = "nan"

\* the strong-buy panels of a panel sequence, projected to symbol, price, RSI
RECURSIVE StrongBuysOf(_)
StrongBuysOf(ps) ==
    IF ps = <<>> THEN <<>>
    ELSE LET rest == StrongBuysOf(SubSeq(ps, 1, Len(ps) - 1))
             last == ps[Len(ps)]
         IN  IF last.verdict.kind = "Strong Buy"
             THEN Append(rest, [Symbol |-> last.title, Price |-> last.price,
                                RSI |-> last.rsi])
             ELSE rest

\* C8: after any prefix of the list the strong-buy collection is the
\* (symbol, price, RSI) of the processed symbols whose verdict is Strong Buy,
\* in evaluation order, and the exported CSV has one row per entry, in order.
C8_StrongBuyCollection ==
    /\ strong_buy_data = StrongBuysOf(panels)
    /\ download # NoDownload =>
          /\ pc = "done"
          /\ Len(download.rows) = Len(strong_buy_data)
          /\ \A k \in 1..Len(strong_buy_data) :
                download.rows[k] = <<strong_buy_data[k].Symbol,
                                     strong_buy_data[k].Price,
                                     strong_buy_data[k].RSI>>

C8_Witness ==
    /\ pc = "done" /\ download # NoDownload
    /\ Len(strong_buy_data) >= 1
    /\ Len(panels) > Len(strong_buy_data)

\* C9: when the symbol list cannot be loaded, main reports the error and
\* returns: no download request, no panel, no summary, no CSV.
C9_LoadFailureAborts ==
    (symbols_file.kind # "ok" /\ pc # "load") =>
        /\ pc = "returned"
        /\ st_error # "None"
        /\ requests = <<>>
        /\ panels = <<>>
        /\ strong_buy_data = <<>>
        /\ st_success = -1
        /\ download = NoDownload

C9_Witness ==
    /\ pc = "returned" /\ symbols_file.kind = "no symbols key"
    /\ st_error # "None"

\* C10 as stated: the reported (rounded) RSI of a Strong Buy is strictly
\* greater than the threshold.
C10_RoundedStrictlyAbove ==
    (pc = "eval_done" /\ result.verdict = StrongBuy) =>
        result.rsi.num > rsi_threshold * result.rsi.den

\* C10 amended: the reported (rounded) RSI of a Strong Buy is greater than
\* or equal to the whole-number threshold.
C10_RoundedAtLeast ==
    (pc = "eval_done" /\ result.verdict = StrongBuy) =>
        /\ IsNum(result.rsi)
        /\ result.rsi.num >= rsi_threshold * result.rsi.den

\* a Strong Buy whose reported RSI equals the threshold
C10_Witness ==
    /\ pc = "eval_done" /\ result.verdict = StrongBuy
    /\ IsNum(result.rsi)
    /\ result.rsi.num = rsi_threshold * result.rsi.den

====
